---- MODULE Spec2Model ----
(***************************************************************************)
(* A model of simplecalc (src/calc.c): a command-line calculator that      *)
(* takes "operand1 operator operand2", converts the operands with strtoul, *)
(* validates them, dispatches on the operator and prints one result.       *)
(*                                                                         *)
(* Fixed-width integers are modelled as bit vectors, functions from the    *)
(* bit positions 0..N-1 (bit 0 the least significant) to {0,1}, so that    *)
(* every wrap-around, truncation and sign reinterpretation of the C code   *)
(* happens at the width the code has.  C strings are sequences of          *)
(* one-character strings; the terminating NUL is the value NUL.            *)
(***************************************************************************)
EXTENDS Integers, Sequences, FiniteSets, TLC

(***************************************************************************)
(* Fixed-width words                                                       *)
(***************************************************************************)

\* uint32_t / int32_t: 32 value bits
WordBits == 32

\* int64_t, the type of the accumulators of the range-checked operations
WideBits == 64

\* the N-bit word with the bits of f: f itself, with every bit evaluated
Vector(f, N) == f @@ f

\* the N-bit word of the natural number n (n < 2^31)
Word(n, N) == Vector([i \in 0..(N - 1) |-> IF i < 31 THEN (n \div (2 ^ i)) % 2 ELSE 0], N)

Zero32 == Word(0, WordBits)

\* INT32_MAX and INT32_MIN of <stdint.h>, as integers
INT32_MAX == 2147483647

INT32_MIN == (-2147483647) - 1

\* (int32_t)w : the value of a 32-bit pattern read as two's complement
RECURSIVE LowValue(_, _)
LowValue(w, i) == IF i < 0 THEN 0 ELSE w[i] * (2 ^ i) + LowValue(w, i - 1)

AsInt32(w) == IF w[31] = 1 THEN INT32_MIN + LowValue(w, 30) ELSE LowValue(w, 30)

\* the 32-bit pattern of an int32_t value (two's complement)
FromInt32(v) ==
    Vector([i \in 0..(WordBits - 1) |->
              IF i < 31 THEN (v \div (2 ^ i)) % 2 ELSE IF v < 0 THEN 1 ELSE 0], WordBits)

\* (int64_t) of an int32_t: sign extension
SignExtend(w) ==
    Vector([i \in 0..(WideBits - 1) |-> IF i < WordBits THEN w[i] ELSE w[WordBits - 1]], WideBits)

\* (int32_t) / (uint32_t) of a wider word: the low 32 bits
Truncate32(w) == Vector([i \in 0..(WordBits - 1) |-> w[i]], WordBits)

NotWord(a, N) == Vector([i \in 0..(N - 1) |-> 1 - a[i]], N)

\* Arithmetic on words is carried out on their bytes: the j-th byte of a word
\* as a number, and the word of a sequence of N/8 bytes (N a multiple of 8)
Byte(w, j) ==
    w[8 * j] + 2 * w[8 * j + 1] + 4 * w[8 * j + 2] + 8 * w[8 * j + 3]
      + 16 * w[8 * j + 4] + 32 * w[8 * j + 5] + 64 * w[8 * j + 6] + 128 * w[8 * j + 7]

Bytes(w, N) == [j \in 1..(N \div 8) |-> Byte(w, j - 1)] \o <<>>

FromBytes(bs, N) == Vector([i \in 0..(N - 1) |-> (bs[(i \div 8) + 1] \div (2 ^ (i % 8))) % 2], N)

\* byte-wise a + b + carry, the carry out of the top byte dropped
RECURSIVE AddBytes(_, _, _, _)
AddBytes(a, b, carry, acc) ==
    IF Len(acc) = Len(a) THEN acc
    ELSE LET j == Len(acc) + 1
             s == a[j] + b[j] + carry
         IN  AddBytes(a, b, s \div 256, Append(acc, s % 256))

\* a + b + cin modulo 2^N
AddWord(a, b, cin, N) == FromBytes(AddBytes(Bytes(a, N), Bytes(b, N), cin, <<>>), N)

\* a - b modulo 2^N
SubWord(a, b, N) == AddWord(a, NotWord(b, N), 1, N)

\* a * 2^k modulo 2^N, for 0 <= k
ShiftLeftBy(a, k, N) == Vector([i \in 0..(N - 1) |-> IF i >= k THEN a[i - k] ELSE 0], N)

\* floor(a / 2^k), zero filled, for 0 <= k
ShiftRightBy(a, k, N) ==
    Vector([i \in 0..(N - 1) |-> IF i + k <= N - 1 THEN a[i + k] ELSE 0], N)

\* the sum of the byte products a[i] * b[k - i] that fall in byte column k
RECURSIVE ColumnSum(_, _, _, _)
ColumnSum(a, b, k, i) ==
    IF i > k THEN 0 ELSE a[i + 1] * b[k - i + 1] + ColumnSum(a, b, k, i + 1)

\* schoolbook product of two byte sequences, the columns above the top dropped
RECURSIVE MulBytes(_, _, _, _)
MulBytes(a, b, carry, acc) ==
    IF Len(acc) = Len(a) THEN acc
    ELSE LET s == ColumnSum(a, b, Len(acc), 0) + carry
         IN  MulBytes(a, b, s \div 256, Append(acc, s % 256))

\* a * b modulo 2^N
MulWord(a, b, N) == FromBytes(MulBytes(Bytes(a, N), Bytes(b, N), 0, <<>>), N)

\* signed a < b on N-bit two's complement words
SignedLess(a, b, N) ==
    IF a[N - 1] # b[N - 1] THEN a[N - 1] = 1
    ELSE \E i \in 0..(N - 2) :
            /\ a[i] = 0 /\ b[i] = 1
            /\ \A j \in (i + 1)..(N - 2) : a[j] = b[j]

\* unsigned value of the low k bits of a word, k <= 30
LowBits(w, k) == LowValue(w, k - 1)

(***************************************************************************)
(* C strings and strtoul                                                   *)
(***************************************************************************)

\* the terminating '\0' of a C string
NUL == "NUL"

\* s[i] of a C string, 0-based; the byte at strlen(s) is the terminator
CharAt(s, i) == IF i < Len(s) THEN s[i + 1] ELSE NUL

\* strlen
strlen(s) == Len(s)

Digits == {"0", "1", "2", "3", "4", "5", "6", "7", "8", "9"}

DigitValue(c) ==
    CASE c = "0" -> 0 [] c = "1" -> 1 [] c = "2" -> 2 [] c = "3" -> 3 [] c = "4" -> 4
      [] c = "5" -> 5 [] c = "6" -> 6 [] c = "7" -> 7 [] c = "8" -> 8 [] c = "9" -> 9

\* isspace in the C locale, over the characters the inputs use
IsSpace(c) == c \in {" ", "\t"}

\* the widths unsigned long has on the platforms the program builds for
\* (ILP32 and LLP64: 32, LP64: 64)
ULONG_WIDTHS == {32, 64}

\* acc * 10 + d on an unsigned long held as its bytes: [value, overflow],
\* overflow when the exact result does not fit the bytes of acc
RECURSIVE MulTenAdd(_, _, _)
MulTenAdd(acc, carry, out) ==
    IF Len(out) = Len(acc) THEN [value |-> out, overflow |-> carry # 0]
    ELSE LET s == acc[Len(out) + 1] * 10 + carry
         IN  MulTenAdd(acc, s \div 256, Append(out, s % 256))

\* the digit loop of strtoul from offset i: [acc, overflow, end]
RECURSIVE ScanDigits(_, _, _, _)
ScanDigits(s, i, acc, ovf) ==
    IF CharAt(s, i) \notin Digits THEN [acc |-> acc, overflow |-> ovf, end |-> i]
    ELSE LET m == MulTenAdd(acc, DigitValue(CharAt(s, i)), <<>>)
         IN  IF m.overflow
               THEN ScanDigits(s, i + 1, m.value, TRUE)
               ELSE ScanDigits(s, i + 1, m.value, ovf)

RECURSIVE SkipSpace(_, _)
SkipSpace(s, i) == IF IsSpace(CharAt(s, i)) THEN SkipSpace(s, i + 1) ELSE i

\* strtoul(s, &endptr, 10) for an unsigned long of L bits:
\*   value  the returned unsigned long (an L-bit word),
\*   end    the offset endptr points at,
\*   erange whether errno is set to ERANGE.
\* No digits: returns 0 and endptr = s.  A '-' negates the value in
\* unsigned long.  Out of range: returns ULONG_MAX and sets ERANGE.
strtoul(s, L) ==
    LET start  == SkipSpace(s, 0)
        signed == CharAt(s, start) \in {"-", "+"}
        neg    == CharAt(s, start) = "-"
        first  == IF signed THEN start + 1 ELSE start
        scan   == ScanDigits(s, first, Bytes(Word(0, L), L), FALSE)
        acc    == FromBytes(scan.acc, L)
    IN  IF scan.end = first
          THEN [value |-> Word(0, L), end |-> 0, erange |-> FALSE]
        ELSE IF scan.overflow
          THEN [value |-> NotWord(Word(0, L), L), end |-> scan.end, erange |-> TRUE]
        ELSE [value  |-> IF neg THEN SubWord(Word(0, L), acc, L) ELSE acc,
              end    |-> scan.end,
              erange |-> FALSE]

(***************************************************************************)
(* The shift operators of C on uint32_t                                    *)
(*                                                                         *)
(* A shift whose count is not less than the width of the promoted left     *)
(* operand is undefined.  The outcomes the usual targets produce are the   *)
(* shift by the count modulo 32 (x86, AArch64) and all bits shifted out    *)
(* (ARM32 register shifts, constant folding); both are possible results.   *)
(* Each operator yields the set of values it may produce, and the count it *)
(* was handed is recorded by the caller.                                   *)
(***************************************************************************)

\* the count is a valid shift amount for a 32-bit operand: count < 32
ValidShiftCount(count) == \A i \in 5..(WordBits - 1) : count[i] = 0

\* value << count
ShiftLeft(value, count) ==
    IF ValidShiftCount(count)
      THEN {ShiftLeftBy(value, LowBits(count, 5), WordBits)}
      ELSE {ShiftLeftBy(value, LowBits(count, 5), WordBits), Zero32}

\* value >> count
ShiftRight(value, count) ==
    IF ValidShiftCount(count)
      THEN {ShiftRightBy(value, LowBits(count, 5), WordBits)}
      ELSE {ShiftRightBy(value, LowBits(count, 5), WordBits), Zero32}

BitOr(a, b) ==
    Vector([i \in 0..(WordBits - 1) |-> IF a[i] = 1 \/ b[i] = 1 THEN 1 ELSE 0], WordBits)

BitAnd(a, b) ==
    Vector([i \in 0..(WordBits - 1) |-> IF a[i] = 1 /\ b[i] = 1 THEN 1 ELSE 0], WordBits)

BitXor(a, b) == Vector([i \in 0..(WordBits - 1) |-> IF a[i] # b[i] THEN 1 ELSE 0], WordBits)

\* count % 32 on uint32_t
Mod32(count) == Vector([i \in 0..(WordBits - 1) |-> IF i < 5 THEN count[i] ELSE 0], WordBits)

\* the two shift counts a rotation executes: count % 32 and 32 - count % 32
RotateCounts(count) == {Mod32(count), SubWord(Word(32, WordBits), Mod32(count), WordBits)}

rotate_left(value, count) ==
    LET c == Mod32(count)
    IN  {BitOr(l, r) : l \in ShiftLeft(value, c),
                       r \in ShiftRight(value, SubWord(Word(32, WordBits), c, WordBits))}

rotate_right(value, count) ==
    LET c == Mod32(count)
    IN  {BitOr(r, l) : r \in ShiftRight(value, c),
                       l \in ShiftLeft(value, SubWord(Word(32, WordBits), c, WordBits))}

(***************************************************************************)
(* The operations                                                          *)
(*                                                                         *)
(* A function that may print an error and call exit() returns a record:    *)
(*   how    "return", "exit" (exit(EXIT_FAILURE) was called) or "trap"     *)
(*          (the process was killed by a signal),                          *)
(*   value  the value returned when how = "return",                        *)
(*   err    the lines it wrote to stderr through handle_error.             *)
(* Where the C code has undefined behaviour the function yields the set of *)
(* such records the build can produce.                                     *)
(***************************************************************************)

NoValue == Zero32

Returned(v) == [how |-> "return", value |-> v, err |-> <<>>]

Exited(message) == [how |-> "exit", value |-> NoValue, err |-> <<message>>]

Trapped == [how |-> "trap", value |-> NoValue, err |-> <<>>]

\* result > INT32_MAX || result < INT32_MIN on an int64_t
OutOfInt32(result) ==
    \/ SignedLess(SignExtend(FromInt32(INT32_MAX)), result, WideBits)
    \/ SignedLess(result, SignExtend(FromInt32(INT32_MIN)), WideBits)

\* perform_addition with the sum taken in int32_t, so that it has wrapped
\* before it is widened and range-checked
perform_addition_narrow(operand1, operand2) ==
    LET result == SignExtend(AddWord(operand1, operand2, 0, WordBits))
    IN  IF OutOfInt32(result)
          THEN Exited("Error! Addition result out of bounds.\n")
          ELSE Returned(Truncate32(result))

perform_addition(operand1, operand2) ==
    LET result == AddWord(SignExtend(operand1), SignExtend(operand2), 0, WideBits)
    IN  IF OutOfInt32(result)
          THEN Exited("Error! Addition result out of bounds.\n")
          ELSE Returned(Truncate32(result))

perform_subtraction(operand1, operand2) ==
    LET result == SubWord(SignExtend(operand1), SignExtend(operand2), WideBits)
    IN  IF OutOfInt32(result)
          THEN Exited("Error! Subtraction result out of bounds.\n")
          ELSE Returned(Truncate32(result))

perform_multiplication(operand1, operand2) ==
    LET result == MulWord(SignExtend(operand1), SignExtend(operand2), WideBits)
    IN  IF OutOfInt32(result)
          THEN Exited("Error! Multiplication result out of bounds.\n")
          ELSE Returned(Truncate32(result))

\* the double (double)operand1 / operand2: both conversions to double are
\* exact, and the quotient is kept as the pair it is the quotient of
Quotient(a, b) == [num |-> AsInt32(a), den |-> AsInt32(b)]

perform_division(operand1, operand2) ==
    IF AsInt32(operand2) = 0
      THEN Exited("Error! Division by zero.\n")
      ELSE Returned(Quotient(operand1, operand2))

\* a / b of C on int, truncating toward zero, for b # 0 and a representable
\* quotient
TruncDiv(a, b) ==
    LET Pos(m) == IF a >= 0 \/ a % m = 0 THEN a \div m ELSE (a \div m) + 1
    IN  IF b > 0 THEN Pos(b)
        ELSE IF b = INT32_MIN THEN (IF a = INT32_MIN THEN 1 ELSE 0)
        ELSE 0 - Pos(0 - b)

\* a % b of C on int32_t, b # 0: a - (a / b) * b when a / b is representable;
\* INT32_MIN % -1 is undefined (a / b overflows): the division instruction
\* traps (x86: SIGFPE) or the remainder comes out as 0 (AArch64)
Remainder(a, b) ==
    IF a = INT32_MIN /\ b = -1
      THEN {Trapped, Returned(FromInt32(0))}
      ELSE {Returned(FromInt32(a - TruncDiv(a, b) * b))}

perform_modulo(operand1, operand2) ==
    IF AsInt32(operand2) = 0
      THEN {Exited("Error! Modulo by zero.\n")}
      ELSE Remainder(AsInt32(operand1), AsInt32(operand2))

perform_left_shift(operand1, operand2) == ShiftLeft(operand1, operand2)

perform_right_shift(operand1, operand2) == ShiftRight(operand1, operand2)

perform_and(operand1, operand2) == BitAnd(operand1, operand2)

perform_or(operand1, operand2) == BitOr(operand1, operand2)

perform_xor(operand1, operand2) == BitXor(operand1, operand2)

\* strncmp(s, t, n) == 0
strncmp_equal(s, t, n) == \A i \in 0..(n - 1) : CharAt(s, i) = CharAt(t, i)

\* a line written by printf or fprintf: the format and its argument
Line(format, arg) == <<format, arg>>

NoArg == <<>>

\* the result of one perform_calculation call:
\*   out, err  the lines written to stdout and stderr,
\*   how       "return", "exit" or "trap",
\*   counts    the shift counts handed to << and >>
Outcome(out, err, how, counts) == [out |-> out, err |-> err, how |-> how, counts |-> counts]

\* result = f(...); printf(format, result);
PrintResult(r, format) ==
    IF r.how = "return"
      THEN Outcome(<<Line(format, r.value)>>, <<>>, "return", {})
      ELSE Outcome(<<>>, r.err, r.how, {})

PrintWord(values, counts) ==
    {Outcome(<<Line("Result: %u\n", v)>>, <<>>, "return", counts) : v \in values}

Unsupported == {Outcome(<<>>, <<"Error! Unsupported operator.\n">>, "exit", {})}

perform_calculation(operand1, operator, operand2) ==
    IF strlen(operator) = 3 /\ strncmp_equal(operator, <<"<", "<", "<">>, 3)
      THEN PrintWord(rotate_left(operand1, operand2), RotateCounts(operand2))
    ELSE IF strlen(operator) = 3 /\ strncmp_equal(operator, <<">", ">", ">">>, 3)
      THEN PrintWord(rotate_right(operand1, operand2), RotateCounts(operand2))
    ELSE
      CASE CharAt(operator, 0) = "+" ->
             {PrintResult(perform_addition(operand1, operand2), "Result: %d\n")}
        [] CharAt(operator, 0) = "-" ->
             {PrintResult(perform_subtraction(operand1, operand2), "Result: %d\n")}
        [] CharAt(operator, 0) = "*" ->
             {PrintResult(perform_multiplication(operand1, operand2), "Result: %d\n")}
        [] CharAt(operator, 0) = "/" ->
             {PrintResult(perform_division(operand1, operand2), "Result: %.2f\n")}
        [] CharAt(operator, 0) = "%" ->
             {PrintResult(r, "Result: %d\n") : r \in perform_modulo(operand1, operand2)}
        [] CharAt(operator, 0) = "<" ->
             IF CharAt(operator, 1) = "<"
               THEN PrintWord(perform_left_shift(operand1, operand2), {operand2})
               ELSE Unsupported
        [] CharAt(operator, 0) = ">" ->
             IF CharAt(operator, 1) = ">"
               THEN IF CharAt(operator, 2) = ">"
                      THEN PrintWord(rotate_right(operand1, operand2), RotateCounts(operand2))
                      ELSE PrintWord(perform_right_shift(operand1, operand2), {operand2})
               ELSE Unsupported
        [] CharAt(operator, 0) = "&" ->
             PrintWord({perform_and(operand1, operand2)}, {})
        [] CharAt(operator, 0) = "|" ->
             PrintWord({perform_or(operand1, operand2)}, {})
        [] CharAt(operator, 0) = "^" ->
             PrintWord({perform_xor(operand1, operand2)}, {})
        [] OTHER -> Unsupported

\* validate_operands testing the dividend instead of the divisor
validate_operands_dividend(operand1, operand2, operator) ==
    IF /\ strncmp_equal(operator, <<"/">>, 1) \/ strncmp_equal(operator, <<"%">>, 1)
       /\ AsInt32(operand1) = 0
      THEN [ok |-> FALSE, err |-> <<"Error! Division or modulo by zero.\n">>]
      ELSE [ok |-> TRUE, err |-> <<>>]

\* validate_operands: [ok, err], ok the returned flag and err the lines
\* written through handle_error
validate_operands(operand1, operand2, operator) ==
    IF /\ strncmp_equal(operator, <<"/">>, 1) \/ strncmp_equal(operator, <<"%">>, 1)
       /\ AsInt32(operand2) = 0
      THEN [ok |-> FALSE, err |-> <<"Error! Division or modulo by zero.\n">>]
      ELSE [ok |-> TRUE, err |-> <<>>]

\* the lines print_usage writes to stdout
print_usage ==
    << Line("Usage: ./simplecalc operand1 operator operand2\n", NoArg),
       Line("Supported Operators:\n", NoArg),
       Line(" (+)  addition\n", NoArg),
       Line(" (-)  subtraction\n", NoArg),
       Line(" (*)  multiplication\n", NoArg),
       Line(" (/)  divide\n", NoArg),
       Line(" (%%)  modulo\n", NoArg),
       Line(" (<<) left shift\n", NoArg),
       Line(" (>>) right shift\n", NoArg),
       Line(" (&)  bitwise AND\n", NoArg),
       Line(" (|)  bitwise OR\n", NoArg),
       Line(" (^)  bitwise XOR\n", NoArg),
       Line(" (<<<) rotate left\n", NoArg),
       Line(" (>>>) rotate right\n", NoArg) >>

(***************************************************************************)
(* The inputs                                                              *)
(***************************************************************************)

\* argc ranges over 1..MaxArgc
MaxArgc == 5

\* the operand strings tried as argv[1] and argv[3]
OperandStrings ==
    { <<>>,
      <<"0">>, <<"1">>, <<"2">>, <<"7">>, <<"3", "2">>, <<"3", "3">>,
      <<"-", "1">>, <<"-", "7">>,
      <<"5", "x">>,
      <<"2", "1", "4", "7", "4", "8", "3", "6", "4", "7">>,
      <<"2", "1", "4", "7", "4", "8", "3", "6", "4", "8">>,
      <<"-", "2", "1", "4", "7", "4", "8", "3", "6", "4", "8">>,
      <<"4", "2", "9", "4", "9", "6", "7", "2", "9", "5">>,
      <<"4", "2", "9", "4", "9", "6", "7", "2", "9", "6">>,
      <<"1", "8", "4", "4", "6", "7", "4", "4", "0", "7", "3", "7", "0", "9", "5", "5", "1", "6", "1", "6">> }

\* the twelve operators print_usage documents
SupportedOperators ==
    { <<"+">>, <<"-">>, <<"*">>, <<"/">>, <<"%">>, <<"<", "<">>, <<">", ">">>,
      <<"&">>, <<"|">>, <<"^">>, <<"<", "<", "<">>, <<">", ">", ">">> }

\* the operator strings tried as argv[2]
OperatorStrings ==
    SupportedOperators \cup
    { <<>>, <<"x">>, <<"<">>, <<">">>, <<"<", "x">>, <<">", "x">>,
      <<"*", "*">>, <<"+", "x">>, <<"&", "&">>, <<"/", "x">>,
      <<"<", "<", "x">>, <<">", ">", "x">>, <<"<", "<", "<", "<">>,
      <<">", ">", ">", "x">> }

(***************************************************************************)
(* The program                                                             *)
(***************************************************************************)

VARIABLES
    argc,        \* the argument count, program name included
    argv,        \* argv[1..argc-1], each a C string
    ulong_bits,  \* the width of unsigned long on the platform
    pc,          \* the position of main
    errno,       \* errno: "0" or "ERANGE"
    operand1,    \* the local uint32_t operand1 of main
    operand2,    \* the local uint32_t operand2 of main
    stdout,      \* the lines written to stdout
    stderr,      \* the lines written to stderr
    status,      \* "running", "EXIT_SUCCESS", "EXIT_FAILURE" or "SIGFPE"
    counts       \* the shift counts the run handed to << and >>

vars == <<argc, argv, ulong_bits, pc, errno, operand1, operand2,
          stdout, stderr, status, counts>>

Init ==
    /\ argc \in 1..MaxArgc
    /\ argv \in IF argc = 4
                  THEN {<<a, o, b>> : a \in OperandStrings, o \in OperatorStrings,
                                      b \in OperandStrings}
                  ELSE {[i \in 1..(argc - 1) |-> <<"1">>]}
    /\ ulong_bits \in ULONG_WIDTHS
    /\ pc = "main"
    /\ errno = "0"
    /\ operand1 = NoValue
    /\ operand2 = NoValue
    /\ stdout = <<>>
    /\ stderr = <<>>
    /\ status = "running"
    /\ counts = {}

\* return EXIT_FAILURE from main after handle_error(message)
Fail(message) ==
    /\ stderr' = Append(stderr, message)
    /\ status' = "EXIT_FAILURE"
    /\ pc' = "exited"

\* if (argc != 4) { print_usage(); return EXIT_FAILURE; }  errno = 0;
CheckArgc ==
    /\ pc = "main"
    /\ IF argc # 4
         THEN /\ stdout' = stdout \o print_usage
              /\ status' = "EXIT_FAILURE"
              /\ pc' = "exited"
              /\ errno' = errno
         ELSE /\ errno' = "0"
              /\ pc' = "operand1"
              /\ UNCHANGED <<stdout, status>>
    /\ UNCHANGED <<argc, argv, ulong_bits, operand1, operand2, stderr, counts>>

\* uint32_t operand1 = strtoul(argv[1], &endptr, 10); and its check
ConvertOperand1 ==
    /\ pc = "operand1"
    /\ LET r == strtoul(argv[1], ulong_bits)
       IN  /\ operand1' = Truncate32(r.value)
           /\ errno' = IF r.erange THEN "ERANGE" ELSE errno
           /\ IF CharAt(argv[1], r.end) # NUL \/ errno' = "ERANGE"
                THEN Fail("Error! Invalid operand1.\n")
                ELSE /\ pc' = "operand2"
                     /\ UNCHANGED <<stderr, status>>
    /\ UNCHANGED <<argc, argv, ulong_bits, operand2, stdout, counts>>

\* uint32_t operand2 = strtoul(argv[3], &endptr, 10); and its check
ConvertOperand2 ==
    /\ pc = "operand2"
    /\ LET r == strtoul(argv[3], ulong_bits)
       IN  /\ operand2' = Truncate32(r.value)
           /\ errno' = IF r.erange THEN "ERANGE" ELSE errno
           /\ IF CharAt(argv[3], r.end) # NUL \/ errno' = "ERANGE"
                THEN Fail("Error! Invalid operand2.\n")
                ELSE /\ pc' = "validate"
                     /\ UNCHANGED <<stderr, status>>
    /\ UNCHANGED <<argc, argv, ulong_bits, operand1, stdout, counts>>

\* if (!validate_operands((int32_t)operand1, (int32_t)operand2, operator))
\*     return EXIT_FAILURE;
Validate ==
    /\ pc = "validate"
    /\ LET v == validate_operands(operand1, operand2, argv[2])
       IN  /\ stderr' = stderr \o v.err
           /\ IF v.ok
                THEN /\ pc' = "calculate"
                     /\ status' = status
                ELSE /\ pc' = "exited"
                     /\ status' = "EXIT_FAILURE"
    /\ UNCHANGED <<argc, argv, ulong_bits, errno, operand1, operand2, stdout, counts>>

\* perform_calculation(operand1, operator, operand2); return EXIT_SUCCESS;
Calculate ==
    /\ pc = "calculate"
    /\ \E o \in perform_calculation(operand1, argv[2], operand2) :
          /\ stdout' = stdout \o o.out
          /\ stderr' = stderr \o o.err
          /\ counts' = counts \cup o.counts
          /\ status' = CASE o.how = "return" -> "EXIT_SUCCESS"
                         [] o.how = "exit"   -> "EXIT_FAILURE"
                         [] o.how = "trap"   -> "SIGFPE"
    /\ pc' = "exited"
    /\ UNCHANGED <<argc, argv, ulong_bits, errno, operand1, operand2>>

Next ==
    \/ CheckArgc
    \/ ConvertOperand1
    \/ ConvertOperand2
    \/ Validate
    \/ Calculate

Spec == Init /\ [][Next]_vars

TypeOK ==
    /\ pc \in {"main", "operand1", "operand2", "validate", "calculate", "exited"}
    /\ status \in {"running", "EXIT_SUCCESS", "EXIT_FAILURE", "SIGFPE"}
    /\ (pc = "exited") = (status # "running")

(***************************************************************************)
(* Properties                                                              *)
(***************************************************************************)

\* the step in which main calls perform_calculation
Calculates == pc = "calculate" /\ pc' = "exited"

ResultFormats == {"Result: %d\n", "Result: %u\n", "Result: %.2f\n"}

IsResultLine(l) == l[1] \in ResultFormats

\* no result line has been written to stdout
NoResult(out) == \A i \in 1..Len(out) : ~IsResultLine(out[i])

RotateLeftOp == <<"<", "<", "<">>

RotateRightOp == <<">", ">", ">">>

ArithmeticOperators == {<<"+">>, <<"-">>, <<"*">>, <<"/">>, <<"%">>}

BitwiseOperators == SupportedOperators \ ArithmeticOperators

\* the pattern of x rotated left by k positions, 0 <= k < 32: bit i of the
\* result is bit i - k (modulo 32) of x
RotatedLeft(x, k) == [i \in 0..(WordBits - 1) |-> x[(i - k) % WordBits]]

RotatedRight(x, k) == [i \in 0..(WordBits - 1) |-> x[(i + k) % WordBits]]

\* the operand string denotes a negative integer: '-', then digits that are
\* not all zero
IsNegative(s) ==
    /\ Len(s) >= 2
    /\ s[1] = "-"
    /\ \A i \in 2..Len(s) : s[i] \in Digits
    /\ \E i \in 2..Len(s) : s[i] # "0"

\* the digits of s after an optional sign
Magnitude(s) == IF Len(s) > 0 /\ s[1] \in {"-", "+"} THEN SubSeq(s, 2, Len(s)) ELSE s

\* s is a complete base-10 integer: an optional sign, then one digit or more
IsDecimal(s) ==
    /\ Len(Magnitude(s)) >= 1
    /\ \A i \in 1..Len(Magnitude(s)) : Magnitude(s)[i] \in Digits

RECURSIVE StripZeros(_)
StripZeros(d) == IF Len(d) > 1 /\ d[1] = "0" THEN StripZeros(Tail(d)) ELSE d

\* d <= e for digit strings without leading zeros
DecimalLeq(d, e) ==
    \/ Len(d) < Len(e)
    \/ /\ Len(d) = Len(e)
       /\ \/ d = e
          \/ \E i \in 1..Len(d) :
                /\ DigitValue(d[i]) < DigitValue(e[i])
                /\ \A j \in 1..(i - 1) : d[j] = e[j]

\* s is a complete base-10 integer within the 32-bit range the operator
\* takes: int32_t for the arithmetic operators, uint32_t for the others
IsOperandFor(s, operator) ==
    /\ IsDecimal(s)
    /\ LET m == StripZeros(Magnitude(s))
       IN  IF operator \in ArithmeticOperators
             THEN IF IsNegative(s)
                    THEN DecimalLeq(m, <<"2", "1", "4", "7", "4", "8", "3", "6", "4", "8">>)
                    ELSE DecimalLeq(m, <<"2", "1", "4", "7", "4", "8", "3", "6", "4", "7">>)
             ELSE /\ ~IsNegative(s)
                  /\ DecimalLeq(m, <<"4", "2", "9", "4", "9", "6", "7", "2", "9", "5">>)

\* both operands are complete base-10 integers in the range of the operator
OperandsFor(operator) == IsOperandFor(argv[1], operator) /\ IsOperandFor(argv[3], operator)

\* both operands are complete base-10 integers in 0..INT32_MAX, the values
\* that are in range whatever the operator
PlainOperands == OperandsFor(<<"+">>) /\ OperandsFor(<<"&">>)

\* C1: operator dispatch accepts exactly the twelve documented tokens by full
\* match: with any other operator string perform_calculation prints no
\* result and the run ends with the unsupported-operator error and a non-zero
\* status; and "<<<" is evaluated as rotate-left.
C1_ExactOperatorMatch ==
    [][(Calculates /\ PlainOperands) =>
         /\ argv[2] \notin SupportedOperators =>
              /\ NoResult(stdout')
              /\ stderr' = <<"Error! Unsupported operator.\n">>
              /\ status' = "EXIT_FAILURE"
         /\ argv[2] = RotateLeftOp =>
              /\ stdout' = <<Line("Result: %u\n", RotatedLeft(operand1, LowBits(operand2, 5)))>>
              /\ status' = "EXIT_SUCCESS"]_vars

\* C2: with an operator of {<<, >>, &, |, ^, <<<, >>>} and at least one
\* negative operand the run is rejected before any evaluation: an error is
\* reported, no result line is printed and the exit status is non-zero.
C2_NegativeOperandRejected ==
    (/\ pc = "exited"
     /\ argc = 4
     /\ argv[2] \in BitwiseOperators
     /\ OperandsFor(<<"+">>)
     /\ IsNegative(argv[1]) \/ IsNegative(argv[3]))
    => /\ status = "EXIT_FAILURE"
       /\ NoResult(stdout)
       /\ stderr # <<>>
       /\ counts = {}

\* a + b, a - b and a * b lie in [INT32_MIN, INT32_MAX], decided without
\* leaving that interval
SumInRange(a, b) ==
    IF b >= 0 THEN a <= INT32_MAX - b ELSE a >= INT32_MIN - b

DifferenceInRange(a, b) ==
    IF b >= 0 THEN a >= INT32_MIN + b ELSE a <= INT32_MAX + b

ProductInRange(a, b) ==
    CASE a = 0 \/ b = 0 -> TRUE
      [] a > 0 /\ b > 0 -> a <= INT32_MAX \div b
      [] a > 0 /\ b < 0 -> b >= (INT32_MIN + a - 1) \div a
      [] a < 0 /\ b > 0 -> a >= (INT32_MIN + b - 1) \div b
      [] a < 0 /\ b < 0 -> /\ a # INT32_MIN
                           /\ b # INT32_MIN
                           /\ (0 - a) <= INT32_MAX \div (0 - b)

\* what a run must do with the exact result of a range-checked operation:
\* print exactly that value, or fail with the overflow message
ExactOrOverflow(inRange, exact, message) ==
    IF inRange
      THEN /\ stdout' = <<Line("Result: %d\n", FromInt32(exact))>>
           /\ stderr' = <<>>
           /\ status' = "EXIT_SUCCESS"
      ELSE /\ stdout' = <<>>
           /\ stderr' = <<message>>
           /\ status' = "EXIT_FAILURE"

\* C3: Add, Sub and Mul return the exact mathematical result when it lies in
\* [-2^31, 2^31 - 1] and otherwise fail with the overflow error; a wrapped
\* value is never returned.
C3_ExactOrOverflow ==
    [][Calculates =>
         LET a == AsInt32(operand1)
             b == AsInt32(operand2)
         IN  /\ argv[2] = <<"+">> =>
                  ExactOrOverflow(SumInRange(a, b), IF SumInRange(a, b) THEN a + b ELSE 0,
                                  "Error! Addition result out of bounds.\n")
             /\ argv[2] = <<"-">> =>
                  ExactOrOverflow(DifferenceInRange(a, b),
                                  IF DifferenceInRange(a, b) THEN a - b ELSE 0,
                                  "Error! Subtraction result out of bounds.\n")
             /\ argv[2] = <<"*">> =>
                  ExactOrOverflow(ProductInRange(a, b),
                                  IF ProductInRange(a, b) THEN a * b ELSE 0,
                                  "Error! Multiplication result out of bounds.\n")]_vars

\* C3 witness: the run of 2147483647 + 1 has ended with the overflow error
C3_Witness ==
    /\ pc = "exited"
    /\ argc = 4
    /\ argv[2] = <<"+">>
    /\ AsInt32(operand1) = INT32_MAX
    /\ AsInt32(operand2) = 1
    /\ stderr = <<"Error! Addition result out of bounds.\n">>
    /\ status = "EXIT_FAILURE"

\* C4: with operator "/" or "%" and a second operand of 0 the run fails with
\* the division-by-zero error: the message is written, nothing is printed,
\* the status is non-zero, and the run ends at validation, so that no
\* division or remainder is executed with the zero divisor.
C4_ZeroDivisorRejected ==
    [][(/\ pc = "validate"
        /\ argv[2] \in {<<"/">>, <<"%">>}
        /\ AsInt32(operand2) = 0)
       => /\ pc' = "exited"
          /\ status' = "EXIT_FAILURE"
          /\ stderr' = <<"Error! Division or modulo by zero.\n">>
          /\ stdout' = <<>>]_vars

\* C4 witness: the run of 7 / 0 has ended at validation with the error
C4_Witness ==
    /\ pc = "exited"
    /\ argc = 4
    /\ argv = << <<"7">>, <<"/">>, <<"0">> >>
    /\ AsInt32(operand1) = 7
    /\ AsInt32(operand2) = 0
    /\ stderr = <<"Error! Division or modulo by zero.\n">>
    /\ stdout = <<>>
    /\ status = "EXIT_FAILURE"

\* C5: rotation round trip: rotate_right(rotate_left(x, n), n) = x for every
\* x and n, with every shift the rotations execute being by a count in 0..31.
C5_RotationRoundTrip ==
    (/\ pc = "exited"
     /\ argc = 4
     /\ argv[2] \in {RotateLeftOp, RotateRightOp}
     /\ OperandsFor(argv[2]))
    => /\ \A y \in rotate_left(operand1, operand2) :
            \A z \in rotate_right(y, operand2) : z = operand1
       /\ \A c \in counts \cup RotateCounts(operand2) : ValidShiftCount(c)

\* C6: at a count that is a multiple of 32, rotate_left and rotate_right
\* return the value unchanged, and do so without executing a shift by 32.
C6_RotationIdentity ==
    [][(Calculates /\ argv[2] \in {RotateLeftOp, RotateRightOp} /\ OperandsFor(argv[2])
          /\ Mod32(operand2) = Zero32)
       => /\ stdout' = <<Line("Result: %u\n", operand1)>>
          /\ \A c \in counts' : c # Word(32, WordBits)]_vars

\* C7: Shl and Shr never fail and reduce the shift amount modulo 32: the
\* result is a shifted by b mod 32 positions (zero filled), and no count of
\* 32 or more is handed to the shift.
C7_ShiftCountReduced ==
    [][(Calculates /\ argv[2] \in {<<"<", "<">>, <<">", ">">>} /\ OperandsFor(argv[2]))
       => /\ status' = "EXIT_SUCCESS"
          /\ stdout' = <<Line("Result: %u\n",
                              IF argv[2] = <<"<", "<">>
                                THEN ShiftLeftBy(operand1, LowBits(operand2, 5), WordBits)
                                ELSE ShiftRightBy(operand1, LowBits(operand2, 5), WordBits))>>
          /\ \A c \in counts' : ValidShiftCount(c)]_vars

\* d is a multiple of b (b # 0), decided within int32_t
IsMultiple(d, b) ==
    IF b = INT32_MIN THEN d \in {0, INT32_MIN}
    ELSE d % (IF b < 0 THEN 0 - b ELSE b) = 0

\* r is the truncating remainder of a by b: zero or of the sign of a,
\* smaller than b in magnitude, and a - r a multiple of b
IsTruncatingRemainder(r, a, b) ==
    /\ a >= 0 => r >= 0
    /\ a <= 0 => r <= 0
    /\ IF b > 0 THEN (0 - b) < r /\ r < b ELSE b < r /\ b < (0 - r)
    /\ IsMultiple(a - r, b)

\* C8: Mod is the truncating remainder for every a and every non-zero b,
\* the pair a = -2147483648, b = -1 included, which yields 0.
C8_TruncatingRemainder ==
    [][(Calculates /\ argv[2] = <<"%">> /\ OperandsFor(argv[2]))
       => /\ status' = "EXIT_SUCCESS"
          /\ Len(stdout') = 1
          /\ stdout'[1][1] = "Result: %d\n"
          /\ IsTruncatingRemainder(AsInt32(stdout'[1][2]),
                                   AsInt32(operand1), AsInt32(operand2))]_vars

\* C9: an operand string that is not a complete base-10 integer within the
\* 32-bit range of the operator ends the run with an invalid-operand error
\* and a non-zero status; it is never wrapped into a value that is evaluated.
C9_OperandParsingRejects ==
    (/\ pc = "exited"
     /\ argc = 4
     /\ argv[2] \in SupportedOperators
     /\ ~IsOperandFor(argv[1], argv[2]) \/ ~IsOperandFor(argv[3], argv[2]))
    => /\ status = "EXIT_FAILURE"
       /\ stdout = <<>>
       /\ stderr # <<>>

\* C10: every run ends as a success (exactly one result line on stdout,
\* nothing on stderr, status zero) or as a failure (an error line on stderr,
\* no result line, non-zero status).
C10_SuccessOrFailure ==
    pc = "exited" =>
      \/ /\ status = "EXIT_SUCCESS"
         /\ Len(stdout) = 1
         /\ IsResultLine(stdout[1])
         /\ stderr = <<>>
      \/ /\ status = "EXIT_FAILURE"
         /\ Len(stderr) >= 1
         /\ NoResult(stdout)
====
